---- MODULE Spec2Model ----
(***************************************************************************)
(* Model of src/transcriber.py: PodcastTranscriber.transcribe_file.        *)
(*                                                                         *)
(* A path is a sequence of strings whose last two elements are the stem    *)
(* and the extension of the file name; the elements before them are the    *)
(* directory components.  A text file is the sequence of its lines (the    *)
(* text between two "\n"), a line is a sequence of one-character strings   *)
(* (the labels of the header are single tokens, the source's labels are    *)
(* not ASCII).  A JSON file is the list of the objects dumped into it.     *)
(* Times are in tenths of a second, so that int() has something to cut.    *)
(***************************************************************************)
EXTENDS Naturals, Sequences, FiniteSets, TLC

\* Largest number of segments the model's generator yields in one call.
MaxSegs == 2

\* None, the empty result.
None == <<>>

\* The audio files that exist on disk, and the paths a caller may pass.
AudioFiles == { <<"data", "audio", "ep1", ".mp3">> }
Paths == AudioFiles \cup { <<"data", "audio", "ep1", ".m4a">> }

\* Segments the model may yield: start and end in tenths of a second, the
\* text as the model returns it (not yet stripped).
SegPool ==
  { [start |-> 0,     end |-> 25,    text |-> <<" ", "h", "e", "l", "l", "o">>],
    [start |-> 60599, end |-> 60745, text |-> <<"b", "y", " ", "e", " ", "\n">>] }

----------------------------------------------------------------------------
\* Pure helpers

\* Variant: the existence check is lost and every path is taken to exist.
PathExistsAlways(path) == TRUE

\* os.path.exists(audio_path)
PathExists(path) == path \in AudioFiles

\* os.path.basename(audio_path): the file name, stem and extension
basename(path) == SubSeq(path, Len(path) - 1, Len(path))

\* os.path.dirname(audio_path)
dirname(path) == SubSeq(path, 1, Len(path) - 2)

\* os.path.join(os.path.dirname(audio_path), "../transcripts")
output_dir(path) == dirname(path) \o <<"..", "transcripts">>

\* os.path.splitext(file_name)[0]
base_name(path) == basename(path)[1]

txt_path(path) == output_dir(path) \o <<base_name(path), ".txt">>
json_path(path) == output_dir(path) \o <<base_name(path), ".json">>

Whitespace == {" ", "\t", "\n"}

RECURSIVE LStrip(_)
LStrip(s) ==
  IF s # <<>> /\ Head(s) \in Whitespace THEN LStrip(Tail(s)) ELSE s

RECURSIVE RStrip(_)
RStrip(s) ==
  IF s # <<>> /\ s[Len(s)] \in Whitespace
  THEN RStrip(SubSeq(s, 1, Len(s) - 1)) ELSE s

\* str.strip()
Strip(s) == RStrip(LStrip(s))

DigitChars == <<"0", "1", "2", "3", "4", "5", "6", "7", "8", "9">>

\* str(n) for n >= 0
RECURSIVE Digits(_)
Digits(n) ==
  IF n < 10 THEN <<DigitChars[n + 1]>>
  ELSE Digits(n \div 10) \o <<DigitChars[(n % 10) + 1]>>

\* f"{n:02d}": at least two digits, padded with zeros on the left
Pad2(n) == IF n < 10 THEN <<"0">> \o Digits(n) ELSE Digits(n)

\* Variant: the time is rounded to the nearest second instead of cut.
IntOfRounded(t) == (t + 5) \div 10

\* int(t) for a time t >= 0 held in tenths of a second
IntOf(t) == t \div 10

\* divmod(int(t), 60)
DivMod60(t) == <<IntOf(t) \div 60, IntOf(t) % 60>>

\* time_str = f"[{start_m:02d}:{start_s:02d} -> {end_m:02d}:{end_s:02d}]"
time_str(segment) ==
  LET s == DivMod60(segment.start)
      e == DivMod60(segment.end)
  IN  <<"[">> \o Pad2(s[1]) \o <<":">> \o Pad2(s[2])
        \o <<" ", "-", ">", " ">>
        \o Pad2(e[1]) \o <<":">> \o Pad2(e[2]) \o <<"]">>

\* line = f"{time_str} {text}" with text = segment.text.strip()
LineOf(segment) == time_str(segment) \o <<" ">> \o Strip(segment.text)

\* Variant: the ids count from 0 (enumerate without its start argument).
RecordOfZeroBased(id, segment) ==
  [id |-> id - 1, start |-> segment.start, end |-> segment.end,
   text |-> Strip(segment.text)]

\* The dict appended to transcript_data
RecordOf(id, segment) ==
  [id |-> id, start |-> segment.start, end |-> segment.end,
   text |-> Strip(segment.text)]

\* The three header writes; each is the list of lines it appends.  The third
\* write ends in "\n\n": the separator line and an empty line.
HeaderWrites(path) ==
  << << <<"source-file: ">> \o basename(path) >>,
     << <<"model-version: large-v3">> >>,
     << [k \in 1..50 |-> "-"], <<>> >> >>

RECURSIVE Flatten(_)
Flatten(ws) == IF ws = <<>> THEN <<>> ELSE Head(ws) \o Flatten(Tail(ws))

\* Variant: the try block begins after the model invocation.
TryBlockAfterInvoke ==
  {"makedirs", "open_txt", "header", "next", "write", "open_json", "dump"}

\* The points of transcribe_file that lie inside its try block
TryBlock ==
  {"transcribe", "makedirs", "open_txt", "header", "next", "write",
   "open_json", "dump"}

----------------------------------------------------------------------------
VARIABLES
  pc,              \* position in transcribe_file; "idle" between calls
  audio_path,      \* the argument of the current (or latest) call, if called
  dirs,            \* the directories that exist
  files,           \* output path -> content, for the output files that exist
  handles,         \* the output files that are open
  gen,             \* the segment generator: "none", "live", "exhausted", "failed"
  gen_out,         \* the segments the generator has yielded in this call
  segment,         \* the loop variable
  i,               \* the enumerate counter
  transcript_data, \* the list collected for the JSON file
  result,          \* what the latest call returned
  propagated,      \* an exception left transcribe_file
  called,          \* some call has been made
  invoked,         \* number of model.transcribe calls in this call
  mkdirs,          \* number of os.makedirs calls that succeeded in this call
  opened,          \* the output files this call has opened
  dirsAtCall,      \* dirs when this call began
  filesAtCall,     \* files when this call began
  raisedAt         \* where this call raised; "" if it has not

vars == <<pc, audio_path, dirs, files, handles, gen, gen_out, segment, i,
          transcript_data, result, propagated, called, invoked, mkdirs,
          opened, dirsAtCall, filesAtCall, raisedAt>>

NoSegment == [start |-> 0, end |-> 0, text |-> <<>>]

Init ==
  /\ pc = "idle"
  /\ audio_path \in AudioFiles   \* no call yet; a path keeps the paths defined
  /\ dirs \in { {}, {output_dir(<<"data", "audio", "ep1", ".mp3">>)} }
  /\ files = <<>>
  /\ handles = {}
  /\ gen = "none"
  /\ gen_out = <<>>
  /\ segment = NoSegment
  /\ i = 0
  /\ transcript_data = <<>>
  /\ result = None
  /\ propagated = FALSE
  /\ called = FALSE
  /\ invoked = 0
  /\ mkdirs = 0
  /\ opened = {}
  /\ dirsAtCall = dirs
  /\ filesAtCall = files
  /\ raisedAt = ""

\* Variant: open(path, "a"), the file keeps what it held.
OpenA(fs, path) == IF path \in DOMAIN fs THEN fs ELSE (path :> <<>>) @@ fs

\* open(path, "w"): the file is created or truncated
OpenW(fs, path) == (path :> <<>>) @@ fs

\* f.write of whole lines, json.dump of a list of objects: appended to what
\* the file holds
WriteLines(fs, path, lines) == [fs EXCEPT ![path] = @ \o lines]

\* Variant: a failure rolls the half-written file back by removing it.
CloseOnErrorRemove(fs, path) == [q \in (DOMAIN fs) \ {path} |-> fs[q]]

\* Leaving the with block of `path` on an exception: the file is closed with
\* what was written to it; nothing removes it (lines 64 and 105-107).
CloseOnError(fs, path) == fs

\* Variant: the directory is created without looking whether it exists.
NeedsMkdirAlways(ds, d) == TRUE

\* line 53: if not os.path.exists(output_dir)
NeedsMkdir(ds, d) == d \notin ds

\* Variant: the handler returns the text path instead of None.
RaiseReturnsPath(at) ==
  /\ raisedAt' = at
  /\ handles' = {}
  /\ result' = txt_path(audio_path)
  /\ pc' = "idle"
  /\ propagated' = propagated

\* Variant: the files are opened without with blocks, so that an exception
\* leaves them open.
RaiseLeaksHandle(at) ==
  /\ raisedAt' = at
  /\ handles' = handles
  /\ result' = None
  /\ pc' = "idle"
  /\ propagated' = propagated

\* An exception raised at the point `at`.  Leaving a with block closes its
\* file.  Inside the try block the handler prints and returns None;
\* outside it the exception leaves transcribe_file.
Raise(at) ==
  /\ raisedAt' = at
  /\ handles' = {}
  /\ IF at \in TryBlock
     THEN /\ result' = None
          /\ pc' = "idle"
          /\ propagated' = propagated
     ELSE /\ result' = result
          /\ pc' = "raised"
          /\ propagated' = TRUE

\* transcribe_file(path), lines 26-32
Call(path) ==
  /\ pc = "idle"
  /\ audio_path' = path
  /\ called' = TRUE
  /\ gen' = "none"
  /\ gen_out' = <<>>
  /\ segment' = NoSegment
  /\ i' = 0
  /\ transcript_data' = <<>>
  /\ invoked' = 0
  /\ mkdirs' = 0
  /\ opened' = {}
  /\ dirsAtCall' = dirs
  /\ filesAtCall' = files
  /\ raisedAt' = ""
  /\ IF ~PathExists(path)
     THEN /\ result' = None
          /\ pc' = "idle"
     ELSE /\ result' = result
          /\ pc' = "transcribe"
  /\ UNCHANGED <<dirs, files, handles, propagated>>

\* self.model.transcribe(...), lines 39-48
ModelTranscribe ==
  /\ pc = "transcribe"
  /\ invoked' = invoked + 1
  /\ \/ /\ gen' = "live"
        /\ pc' = "prepare"
        /\ UNCHANGED <<handles, result, propagated, raisedAt>>
     \/ /\ gen' = gen
        /\ Raise("transcribe")
  /\ UNCHANGED <<audio_path, dirs, files, gen_out, segment, i,
                 transcript_data, called, mkdirs, opened, dirsAtCall,
                 filesAtCall>>

\* lines 52-61: the output directory, the paths, transcript_data = []
PrepareOutput ==
  /\ pc = "prepare"
  /\ \/ /\ ~NeedsMkdir(dirs, output_dir(audio_path))
        /\ pc' = "open_txt"
        /\ transcript_data' = <<>>
        /\ UNCHANGED <<dirs, mkdirs, handles, result, propagated, raisedAt>>
     \/ /\ NeedsMkdir(dirs, output_dir(audio_path))
        /\ dirs' = dirs \cup {output_dir(audio_path)}
        /\ mkdirs' = mkdirs + 1
        /\ pc' = "open_txt"
        /\ transcript_data' = <<>>
        /\ UNCHANGED <<handles, result, propagated, raisedAt>>
     \/ /\ NeedsMkdir(dirs, output_dir(audio_path))
        /\ Raise("makedirs")
        /\ UNCHANGED <<dirs, mkdirs, transcript_data>>
  /\ UNCHANGED <<audio_path, files, gen, gen_out, segment, i, called,
                 invoked, opened, dirsAtCall, filesAtCall>>

\* line 64: with open(txt_path, "w", encoding="utf-8") as f; open raises
\* when the directory is missing
OpenTxt ==
  /\ pc = "open_txt"
  /\ \/ /\ output_dir(audio_path) \in dirs
        /\ files' = OpenW(files, txt_path(audio_path))
        /\ handles' = handles \cup {txt_path(audio_path)}
        /\ opened' = opened \cup {txt_path(audio_path)}
        /\ pc' = "header"
        /\ UNCHANGED <<result, propagated, raisedAt>>
     \/ /\ Raise("open_txt")
        /\ UNCHANGED <<files, opened>>
  /\ UNCHANGED <<audio_path, dirs, gen, gen_out, segment, i,
                 transcript_data, called, invoked, mkdirs, dirsAtCall,
                 filesAtCall>>

\* lines 65-67: the three header writes; a write that fails leaves the
\* writes before it in the file
WriteHeader ==
  /\ pc = "header"
  /\ \/ /\ files' = WriteLines(files, txt_path(audio_path),
                               Flatten(HeaderWrites(audio_path)))
        /\ pc' = "loop"
        /\ UNCHANGED <<handles, result, propagated, raisedAt>>
     \/ /\ \E k \in 0..2 :
             files' = CloseOnError(
                        WriteLines(files, txt_path(audio_path),
                          Flatten(SubSeq(HeaderWrites(audio_path), 1, k))),
                        txt_path(audio_path))
        /\ Raise("header")
  /\ UNCHANGED <<audio_path, dirs, gen, gen_out, segment, i,
                 transcript_data, called, invoked, mkdirs, opened,
                 dirsAtCall, filesAtCall>>

\* Variant: the JSON file is written inside the with block of the text file,
\* which is still open when the sequence is exhausted.
NextSegmentNested ==
  /\ pc = "loop"
  /\ gen = "live"
  /\ \/ /\ Len(gen_out) < MaxSegs
        /\ \E s \in SegPool :
             /\ segment' = s
             /\ gen_out' = Append(gen_out, s)
        /\ i' = i + 1
        /\ pc' = "body"
        /\ UNCHANGED <<gen, files, handles, result, propagated, raisedAt>>
     \/ /\ gen' = "exhausted"
        /\ pc' = "open_json"
        /\ UNCHANGED <<gen_out, segment, i, files, handles, result,
                       propagated, raisedAt>>
     \/ /\ gen' = "failed"
        /\ files' = CloseOnError(files, txt_path(audio_path))
        /\ Raise("next")
        /\ UNCHANGED <<gen_out, segment, i>>
  /\ UNCHANGED <<audio_path, dirs, transcript_data, called, invoked,
                 mkdirs, opened, dirsAtCall, filesAtCall>>

\* line 70: the for loop asks the generator for its next segment; the
\* generator yields one, is exhausted (the with block is left and the text
\* file closed) or raises
NextSegment ==
  /\ pc = "loop"
  /\ gen = "live"
  /\ \/ /\ Len(gen_out) < MaxSegs
        /\ \E s \in SegPool :
             /\ segment' = s
             /\ gen_out' = Append(gen_out, s)
        /\ i' = i + 1
        /\ pc' = "body"
        /\ UNCHANGED <<gen, files, handles, result, propagated, raisedAt>>
     \/ /\ gen' = "exhausted"
        /\ handles' = handles \ {txt_path(audio_path)}
        /\ pc' = "open_json"
        /\ UNCHANGED <<gen_out, segment, i, files, result, propagated,
                       raisedAt>>
     \/ /\ gen' = "failed"
        /\ files' = CloseOnError(files, txt_path(audio_path))
        /\ Raise("next")
        /\ UNCHANGED <<gen_out, segment, i>>
  /\ UNCHANGED <<audio_path, dirs, transcript_data, called, invoked,
                 mkdirs, opened, dirsAtCall, filesAtCall>>

\* lines 72-93: format the segment, write its line, append its record
LoopBody ==
  /\ pc = "body"
  /\ \/ /\ files' = WriteLines(files, txt_path(audio_path),
                               <<LineOf(segment)>>)
        /\ transcript_data' = Append(transcript_data, RecordOf(i, segment))
        /\ pc' = "loop"
        /\ UNCHANGED <<handles, result, propagated, raisedAt>>
     \/ /\ files' = CloseOnError(files, txt_path(audio_path))
        /\ Raise("write")
        /\ UNCHANGED transcript_data
  /\ UNCHANGED <<audio_path, dirs, gen, gen_out, segment, i, called,
                 invoked, mkdirs, opened, dirsAtCall, filesAtCall>>

\* line 96: with open(json_path, "w", encoding="utf-8") as f
OpenJson ==
  /\ pc = "open_json"
  /\ \/ /\ output_dir(audio_path) \in dirs
        /\ files' = OpenW(files, json_path(audio_path))
        /\ handles' = handles \cup {json_path(audio_path)}
        /\ opened' = opened \cup {json_path(audio_path)}
        /\ pc' = "dump"
        /\ UNCHANGED <<result, propagated, raisedAt>>
     \/ /\ Raise("open_json")
        /\ UNCHANGED <<files, opened>>
  /\ UNCHANGED <<audio_path, dirs, gen, gen_out, segment, i,
                 transcript_data, called, invoked, mkdirs, dirsAtCall,
                 filesAtCall>>

\* lines 97-103: json.dump, the file is closed, return txt_path; a dump
\* that fails leaves the objects written before the failure
DumpJson ==
  /\ pc = "dump"
  /\ \/ /\ files' = WriteLines(files, json_path(audio_path), transcript_data)
        /\ handles' = handles \ {json_path(audio_path)}
        /\ result' = txt_path(audio_path)
        /\ pc' = "idle"
        /\ UNCHANGED <<propagated, raisedAt>>
     \/ /\ \E k \in 0..Len(transcript_data) :
             files' = WriteLines(files, json_path(audio_path),
                                 SubSeq(transcript_data, 1, k))
        /\ Raise("dump")
  /\ UNCHANGED <<audio_path, dirs, gen, gen_out, segment, i,
                 transcript_data, called, invoked, mkdirs, opened,
                 dirsAtCall, filesAtCall>>

Next ==
  \/ \E path \in Paths : Call(path)
  \/ ModelTranscribe
  \/ PrepareOutput
  \/ OpenTxt
  \/ WriteHeader
  \/ NextSegment
  \/ LoopBody
  \/ OpenJson
  \/ DumpJson

Spec == Init /\ [][Next]_vars

----------------------------------------------------------------------------
\* Reading the files back

TXT == txt_path(audio_path)
JSON == json_path(audio_path)

\* The latest call has returned to its caller
Returned == called /\ pc = "idle"

\* The latest call returned a path
Succeeded == Returned /\ result # None

\* Position of the first c in s at or after from; Len(s) + 1 if there is none
IndexOf(s, c, from) ==
  LET at == {j \in from..Len(s) : s[j] = c}
  IN  IF at = {} THEN Len(s) + 1
      ELSE CHOOSE j \in at : \A m \in at : j <= m

IsDigits(ds) == \A k \in 1..Len(ds) : \E d \in 1..10 : DigitChars[d] = ds[k]

DigitValue(c) == (CHOOSE d \in 1..10 : DigitChars[d] = c) - 1

RECURSIVE ValueOf(_)
ValueOf(ds) ==
  IF ds = <<>> THEN 0
  ELSE 10 * ValueOf(SubSeq(ds, 1, Len(ds) - 1)) + DigitValue(ds[Len(ds)])

\* A content line read as "[" mm ":" ss " -> " mm ":" ss "] " text
ParseLine(line) ==
  LET c1 == IndexOf(line, ":", 1)
      c2 == IndexOf(line, ":", c1 + 1)
      ok == /\ Len(line) >= c2 + 4
            /\ c1 > 2
            /\ c2 > c1 + 7
            /\ line[1] = "["
            /\ SubSeq(line, c1 + 3, c1 + 6) = <<" ", "-", ">", " ">>
            /\ line[c2 + 3] = "]"
            /\ line[c2 + 4] = " "
            /\ IsDigits(SubSeq(line, 2, c1 - 1))
            /\ IsDigits(SubSeq(line, c1 + 1, c1 + 2))
            /\ IsDigits(SubSeq(line, c1 + 7, c2 - 1))
            /\ IsDigits(SubSeq(line, c2 + 1, c2 + 2))
  IN  [ok   |-> ok,
       sm   |-> IF ok THEN SubSeq(line, 2, c1 - 1) ELSE <<>>,
       ss   |-> IF ok THEN SubSeq(line, c1 + 1, c1 + 2) ELSE <<>>,
       em   |-> IF ok THEN SubSeq(line, c1 + 7, c2 - 1) ELSE <<>>,
       es   |-> IF ok THEN SubSeq(line, c2 + 1, c2 + 2) ELSE <<>>,
       text |-> IF ok THEN SubSeq(line, c2 + 5, Len(line)) ELSE <<>>]

\* ds is n written with at least two digits and no more zeros than needed
IsPadded2(ds, n) ==
  /\ Len(ds) >= 2
  /\ (Len(ds) > 2 => ds[1] # "0")
  /\ ValueOf(ds) = n

\* The stamp of line is the start and end of rec cut to whole seconds
StampMatches(line, rec) ==
  LET p == ParseLine(line)
      s == rec.start \div 10
      e == rec.end \div 10
  IN  /\ p.ok
      /\ IsPadded2(p.sm, s \div 60)
      /\ IsPadded2(p.ss, s % 60)
      /\ Len(p.ss) = 2
      /\ IsPadded2(p.em, e \div 60)
      /\ IsPadded2(p.es, e % 60)
      /\ Len(p.es) = 2

\* What a call that yields segs writes into an empty text file and JSON file
FreshTxt(path, segs) ==
  Flatten(HeaderWrites(path)) \o [k \in 1..Len(segs) |-> LineOf(segs[k])]
FreshJson(segs) == [k \in 1..Len(segs) |-> RecordOf(k, segs[k])]

----------------------------------------------------------------------------
\* C1: a call with a path that does not exist returns None without raising,
\* does not invoke the model, creates no directory and opens or changes no
\* output file.
C1_MissingPathNoWrites ==
  (Returned /\ audio_path \notin AudioFiles) =>
    /\ result = None
    /\ ~propagated
    /\ raisedAt = ""
    /\ invoked = 0
    /\ mkdirs = 0
    /\ dirs = dirsAtCall
    /\ opened = {}
    /\ handles = {}
    /\ files = filesAtCall

\* C1 witness: a missing path was passed while output files of an earlier
\* call exist.
C1_Witness ==
  /\ Returned
  /\ audio_path \notin AudioFiles
  /\ JSON \in DOMAIN files
  /\ TXT \in DOMAIN files

\* C2 as stated: after a successful call with N segments the text file is N
\* content lines plus a 3-line header, the JSON file is N objects with ids
\* 1..N in order, the k-th carrying the text of the k-th content line.
C2_Original ==
  Succeeded =>
    /\ Len(files[TXT]) = Len(gen_out) + 3
    /\ Len(files[JSON]) = Len(gen_out)
    /\ \A k \in 1..Len(gen_out) :
         /\ files[JSON][k].id = k
         /\ ParseLine(files[TXT][3 + k]).ok
         /\ files[JSON][k].text = ParseLine(files[TXT][3 + k]).text

\* C2 amended: after a successful call with N segments the text file is a
\* header of 3 lines, one empty line and then N content lines (N + 4 lines),
\* the JSON file is N objects with ids 1..N in the order yielded, the k-th
\* carrying the text of the k-th content line, which is the stripped text of
\* the k-th segment.
C2_LinesAndObjects ==
  Succeeded =>
    /\ Len(files[TXT]) = Len(gen_out) + 4
    /\ \A h \in 1..3 : files[TXT][h] # <<>> /\ ~ParseLine(files[TXT][h]).ok
    /\ files[TXT][4] = <<>>
    /\ Len(files[JSON]) = Len(gen_out)
    /\ \A k \in 1..Len(gen_out) :
         /\ files[JSON][k].id = k
         /\ ParseLine(files[TXT][4 + k]).ok
         /\ files[JSON][k].text = ParseLine(files[TXT][4 + k]).text
         /\ files[JSON][k].text = Strip(gen_out[k].text)

\* C2 witness: a successful call with two or more segments, not all alike.
C2_Witness ==
  /\ Succeeded
  /\ Len(gen_out) >= 2
  /\ gen_out[1] # gen_out[2]

\* C3: the stamp of every written line is the start and end of its JSON
\* object cut to whole seconds, split by div and mod 60, each padded to two
\* digits; the object keeps the start and end the segment had.
C3_StampMatchesJson ==
  /\ TXT \in opened =>
       \A k \in 1..Len(transcript_data) :
         /\ Len(files[TXT]) >= 4 + k
         /\ StampMatches(files[TXT][4 + k], transcript_data[k])
         /\ transcript_data[k].start = gen_out[k].start
         /\ transcript_data[k].end = gen_out[k].end
  /\ Succeeded =>
       \A k \in 1..Len(files[JSON]) :
         /\ StampMatches(files[TXT][4 + k], files[JSON][k])
         /\ files[JSON][k].start = gen_out[k].start
         /\ files[JSON][k].end = gen_out[k].end

\* C3 witness: a successful call wrote the segment (0.0, 2.5, " hello") as
\* the line "[00:00 -> 00:02] hello" and an object with start 0.0 and end
\* 2.5, and the segment (6059.9, 6074.5, "by e \n") as the line
\* "[100:59 -> 101:14] by e".
C3_Witness ==
  /\ Succeeded
  /\ \E k \in 1..Len(files[JSON]) :
       /\ files[JSON][k].start = 0
       /\ files[JSON][k].end = 25
       /\ files[TXT][4 + k] =
            <<"[", "0", "0", ":", "0", "0", " ", "-", ">", " ",
              "0", "0", ":", "0", "2", "]", " ", "h", "e", "l", "l", "o">>
  /\ \E k \in 1..Len(files[JSON]) :
       /\ files[JSON][k].start = 60599
       /\ files[TXT][4 + k] =
            <<"[", "1", "0", "0", ":", "5", "9", " ", "-", ">", " ",
              "1", "0", "1", ":", "1", "4", "]", " ", "b", "y", " ", "e">>

\* C4 as stated: after any sequence of calls on one path, each output file
\* that exists holds only what the latest call produced (all of it, or the
\* part written before that call failed), nothing of an earlier call.  (Only calls on the one audio file that exists write anything,
\* so every earlier content is that of a call on the same path.)
C4_Original ==
  (Returned /\ audio_path \in AudioFiles) =>
    /\ TXT \in DOMAIN files =>
         \E n \in 0..Len(FreshTxt(audio_path, gen_out)) :
           files[TXT] = SubSeq(FreshTxt(audio_path, gen_out), 1, n)
    /\ JSON \in DOMAIN files =>
         \E n \in 0..Len(gen_out) :
           files[JSON] = SubSeq(FreshJson(gen_out), 1, n)

\* C4 amended: after any sequence of calls on one path whose latest call
\* succeeded, both files hold exactly what that call would have written
\* into empty files, whatever they held before; and whenever a call opens an
\* output file, the file is empty at that moment.
C4_Overwrites ==
  /\ Succeeded =>
       /\ files[TXT] = FreshTxt(audio_path, gen_out)
       /\ files[JSON] = FreshJson(gen_out)
  /\ pc = "header" => files[TXT] = <<>>
  /\ pc = "dump" => files[JSON] = <<>>

\* C4 witness: a successful call replaced a text file and a JSON file that
\* an earlier call had filled with something else.
C4_Witness ==
  /\ Succeeded
  /\ TXT \in DOMAIN filesAtCall
  /\ JSON \in DOMAIN filesAtCall
  /\ Len(filesAtCall[TXT]) > 4
  /\ filesAtCall[JSON] # <<>>
  /\ filesAtCall[TXT] # files[TXT]
  /\ filesAtCall[JSON] # files[JSON]
  /\ gen_out # <<>>

\* C5: an exception raised by the model invocation, the segment iteration or
\* a file operation never leaves transcribe_file: the call returns None and
\* the transcriber accepts another call.
C5_ExceptionsCaught ==
  /\ ~propagated
  /\ pc # "raised"
  /\ raisedAt # "" =>
       /\ Returned
       /\ result = None
       /\ \A path \in Paths : ENABLED Call(path)

\* C5 witness: a write to the text file failed and the call returned None.
C5_Witness ==
  /\ Returned
  /\ raisedAt = "write"
  /\ result = None
  /\ audio_path \in AudioFiles

\* C6: in a call that gets to its output, a directory that did not exist is
\* created exactly once, before either output file is opened; one that did
\* exist is not created again.
C6_DirCreatedOnce ==
  /\ mkdirs <= 1
  /\ mkdirs = 1 => output_dir(audio_path) \notin dirsAtCall
  /\ (pc \in {"open_txt", "header", "loop", "body", "open_json", "dump"}
        \/ opened # {}) =>
       /\ output_dir(audio_path) \in dirs
       /\ mkdirs = IF output_dir(audio_path) \in dirsAtCall THEN 0 ELSE 1
  /\ handles # {} => output_dir(audio_path) \in dirs

\* C6 witness: the text file is open in a call that created the directory.
C6_Witness ==
  /\ TXT \in handles
  /\ mkdirs = 1
  /\ dirsAtCall = {}

\* C7 as stated: if the segment sequence fails after k segments, then at the
\* return the text file is the header and the k lines already yielded, the
\* JSON file is absent and the result is None.
C7_Original ==
  (Returned /\ raisedAt = "next") =>
    /\ TXT \in DOMAIN files
    /\ files[TXT] = FreshTxt(audio_path, gen_out)
    /\ JSON \notin DOMAIN files
    /\ result = None

\* C7 amended: if the segment sequence fails after k segments, then at the
\* return the text file is the header and the k lines already yielded, the
\* JSON file is untouched by this call (absent if it was absent before the
\* call, otherwise still what an earlier call left) and the result is None.
C7_MidStreamFailure ==
  (Returned /\ raisedAt = "next") =>
    /\ TXT \in DOMAIN files
    /\ files[TXT] = FreshTxt(audio_path, gen_out)
    /\ Len(files[TXT]) = 4 + Len(gen_out)
    /\ JSON \notin opened
    /\ JSON \in DOMAIN files <=> JSON \in DOMAIN filesAtCall
    /\ JSON \in DOMAIN files => files[JSON] = filesAtCall[JSON]
    /\ result = None

\* C7 witness: the sequence failed after one segment or more, in a call on a
\* path with no JSON file.
C7_Witness ==
  /\ Returned
  /\ raisedAt = "next"
  /\ Len(gen_out) >= 1
  /\ JSON \notin DOMAIN files

\* C8: a call returns the text path only on success: then the model was
\* invoked, every segment of the exhausted sequence is in the text file and
\* the JSON file holds all of them; in every other outcome it returns None.
C8_PathOnlyOnSuccess ==
  Returned =>
    /\ result \in {None, TXT}
    /\ result # None =>
         /\ audio_path \in AudioFiles
         /\ raisedAt = ""
         /\ invoked = 1
         /\ gen = "exhausted"
         /\ Len(transcript_data) = Len(gen_out)
         /\ Len(files[TXT]) = 4 + Len(gen_out)
         /\ \A k \in 1..Len(gen_out) :
              ParseLine(files[TXT][4 + k]).text = Strip(gen_out[k].text)
         /\ files[JSON] = transcript_data
         /\ opened = {TXT, JSON}
    /\ (raisedAt # "" \/ audio_path \notin AudioFiles \/ gen # "exhausted"
          \/ JSON \notin opened) => result = None

\* C8 witness: a call returned the text path after one segment or more.
C8_Witness ==
  /\ Returned
  /\ result = TXT
  /\ Len(gen_out) >= 1

\* C9: the segment sequence is consumed in one pass: each segment is taken
\* once, in the order yielded, and is in the text file before the next one
\* is requested; the JSON file is opened only after the sequence is
\* exhausted and the text file closed.
C9_SinglePass ==
  /\ Len(transcript_data) <= Len(gen_out)
  /\ \A k \in 1..Len(transcript_data) :
       transcript_data[k] = RecordOf(k, gen_out[k])
  /\ pc = "loop" =>
       /\ gen = "live"
       /\ Len(transcript_data) = Len(gen_out)
       /\ i = Len(gen_out)
       /\ files[TXT] = FreshTxt(audio_path, gen_out)
  /\ pc = "body" =>
       /\ gen = "live"
       /\ i = Len(gen_out)
       /\ segment = gen_out[i]
       /\ Len(transcript_data) = i - 1
       /\ files[TXT] = FreshTxt(audio_path, SubSeq(gen_out, 1, i - 1))
  /\ gen \in {"exhausted", "failed"} => pc \notin {"loop", "body"}
  /\ (JSON \in opened \/ JSON \in handles \/ pc \in {"open_json", "dump"}) =>
       /\ gen = "exhausted"
       /\ TXT \notin handles
       /\ files[TXT] = FreshTxt(audio_path, gen_out)

\* C9 witness: the JSON file is open after a sequence of two segments.
C9_Witness ==
  /\ JSON \in handles
  /\ pc = "dump"
  /\ Len(gen_out) >= 2

\* C10: the two output handles are never open together, and when a call has
\* returned, with the text path or with None, no output handle is open.
C10_HandlesClosed ==
  /\ Cardinality(handles) <= 1
  /\ handles \subseteq {TXT, JSON}
  /\ pc \in {"idle", "raised"} => handles = {}
  /\ TXT \in handles <=> pc \in {"header", "loop", "body"}
  /\ JSON \in handles <=> pc = "dump"

\* C10 witness: the dump into the JSON file failed and the call returned with
\* no handle open.
C10_Witness ==
  /\ Returned
  /\ raisedAt = "dump"
  /\ handles = {}
  /\ JSON \in opened

====
